---------------------------- MODULE Spec2Model ----------------------------
(***************************************************************************)
(* CAD_Sketcher: thick rendering of entities (model/base_entity.py,        *)
(* model/workplane.py) and the tessellation behind it (utilities/draw.py). *)
(*                                                                         *)
(* Numbers.  The program computes with floats; the model computes exactly  *)
(* with integers.  A length or a coordinate is an integer count of units   *)
(* of 1e-7 (UnitsPerOne units make 1.0), so MIN_SEGMENT_LENGTH = 1e-6 is   *)
(* 10 units and segments shorter than it, not only the zero segment, are   *)
(* representable.  A width is an integer count of tenths (WidthDen), so    *)
(* that the workplane's line_width = 0.2 is representable.  A normalised   *)
(* vector is a rational vector [v, den] standing for v / den.  The input   *)
(* sets below hold only vectors whose Euclidean length, and the length of  *)
(* whose perpendicular, is a whole number, so that every division of the   *)
(* model is exact and no rounding is introduced by the representation.     *)
(***************************************************************************)
EXTENDS Integers, Sequences, FiniteSets, TLC

VARIABLES
    \* model/base_entity.py, model/workplane.py: the entities' render state
    background,         \* bpy.app.background
    dirty,              \* entity -> its own "dirty" BoolProperty
    batches,            \* global_data.batches: entity -> its stored GPU batch
    workplane_size,     \* preferences.get_prefs().workplane_size
    last,               \* the last call made and how it ended
    \* utilities/draw.py: a tessellation call, whether it has returned, and
    \* what it returned
    call,
    draw_pc,
    result,
    \* model/base_entity.py: what colour, visibility and selectability read
    fixed,              \* entity -> its "fixed" BoolProperty
    visible,            \* entity -> its "visible" BoolProperty
    origin,             \* entity -> its "origin" BoolProperty
    sketch_visible,     \* sketch -> what its is_visible(context) returns
    active_sketch,      \* context.scene.sketcher.active_sketch
    show_origin,        \* context.scene.sketcher.show_origin
    all_entities_selectable,    \* the experimental preference of that name
    hover,              \* global_data.hover
    selected,           \* global_data.selected
    highlight_entities  \* global_data.highlight_entities

entity_vars == <<background, dirty, batches, workplane_size, last>>
draw_vars == <<call, draw_pc, result>>
view_vars ==
    <<fixed, visible, origin, sketch_visible, active_sketch, show_origin,
      all_entities_selectable, hover, selected, highlight_entities>>
vars ==
    <<background, dirty, batches, workplane_size, last, call, draw_pc, result,
      fixed, visible, origin, sketch_visible, active_sketch, show_origin,
      all_entities_selectable, hover, selected, highlight_entities>>

---------------------------------------------------------------------------
\* Representation and RenderingConfig

UnitsPerOne == 10000000
WidthDen == 10

THICK_LINE_SCALE == 50000
THICK_POINT_SCALE == 40000
MIN_SEGMENT_LENGTH == 10
DEFAULT_DASH_LENGTH == 1000000
DEFAULT_GAP_LENGTH == 500000

\* RenderMode
SOLID == "solid"
DASHED == "dashed"

---------------------------------------------------------------------------
\* mathutils.Vector on tuples of integers

Abs(n) == IF n < 0 THEN -n ELSE n

Min(a, b) == IF a < b THEN a ELSE b

RECURSIVE Gcd(_, _)
Gcd(a, b) == IF b = 0 THEN a ELSE Gcd(b, a % b)

RECURSIVE SqrtFrom(_, _)
SqrtFrom(n, r) == IF (r + 1) * (r + 1) > n THEN r ELSE SqrtFrom(n, r + 1)

\* floor of the square root
ISqrt(n) == SqrtFrom(n, 0)

RECURSIVE GcdOf(_, _)
GcdOf(v, i) == IF i = 0 THEN 0 ELSE Gcd(Abs(v[i]), GcdOf(v, i - 1))

RECURSIVE SumSq(_, _, _)
SumSq(v, g, i) ==
    IF i = 0 THEN 0 ELSE (v[i] \div g) * (v[i] \div g) + SumSq(v, g, i - 1)

VAdd(a, b) == [i \in 1..Len(a) |-> a[i] + b[i]]

VSub(a, b) == [i \in 1..Len(a) |-> a[i] - b[i]]

\* v * num / den
VScale(v, num, den) == [i \in 1..Len(v) |-> (v[i] * num) \div den]

\* Vector.length: the Euclidean norm, taken on the vector divided by the
\* gcd of its components so that the squares stay small.
Length(v) ==
    LET g == GcdOf(v, Len(v))
    IN  IF g = 0 THEN 0 ELSE g * ISqrt(SumSq(v, g, Len(v)))

\* Vector.normalized(): v / |v| as the rational vector [v, den]; the zero
\* vector normalises to itself.
Normalized(v) ==
    LET g == GcdOf(v, Len(v))
    IN  IF g = 0
        THEN [v |-> v, den |-> 1]
        ELSE [v |-> [i \in 1..Len(v) |-> v[i] \div g],
              den |-> ISqrt(SumSq(v, g, Len(v)))]

\* Vector.cross for 3D vectors
Cross(a, b) ==
    << a[2] * b[3] - a[3] * b[2],
       a[3] * b[1] - a[1] * b[3],
       a[1] * b[2] - a[2] * b[1] >>

---------------------------------------------------------------------------
\* ThickRenderer (utilities/draw.py)

\* What a tessellation gives back: the (coords, indices) pair it returns, or
\* exc when it raises instead of returning.
Geometry(coords, indices) == [exc |-> FALSE, coords |-> coords, indices |-> indices]

Raised == [exc |-> TRUE, coords |-> <<>>, indices |-> <<>>]

\* direction.cross(Vector((0, 0, 1))) for |z| < 0.9, else
\* direction.cross(Vector((1, 0, 0))); direction is a rational vector.
PerpendicularAxisZOnly(direction) == Cross(direction.v, <<0, 0, 1>>)

PerpendicularAxis(direction) ==
    IF Abs(direction.v[3]) * 10 < 9 * direction.den
    THEN Cross(direction.v, <<0, 0, 1>>)
    ELSE Cross(direction.v, <<1, 0, 0>>)

\* width in tenths; the result is a vector in units
_calculate_perpendicular_offset(direction, width, scale_factor) ==
    IF Length(direction.v) * UnitsPerOne < MIN_SEGMENT_LENGTH * direction.den
    THEN <<0, 0, 0>>
    ELSE LET perpendicular == Normalized(PerpendicularAxis(direction))
         IN  VScale(perpendicular.v,
                    (width * scale_factor) \div WidthDen,
                    perpendicular.den)

_create_quad_geometry(start, end, offset) ==
    Geometry(<< VSub(start, offset), VAdd(start, offset),
                VAdd(end, offset), VSub(end, offset) >>,
             << <<0, 1, 2>>, <<0, 2, 3>> >>)

\* center.z of a 2D vector raises AttributeError
render_point(center, size) ==
    IF Len(center) # 3
    THEN Raised
    ELSE LET half_size == size * THICK_POINT_SCALE
         IN  Geometry(<< <<center[1] - half_size, center[2] - half_size, center[3]>>,
                         <<center[1] + half_size, center[2] - half_size, center[3]>>,
                         <<center[1] + half_size, center[2] + half_size, center[3]>>,
                         <<center[1] - half_size, center[2] + half_size, center[3]>> >>,
                      << <<0, 1, 2>>, <<0, 2, 3>> >>)

\* [(idx[0] + base_idx, idx[1] + base_idx, idx[2] + base_idx) for idx in ...]
AdjustIndices(indices, base_idx) ==
    [k \in 1..Len(indices) |->
        <<indices[k][1] + base_idx, indices[k][2] + base_idx, indices[k][3] + base_idx>>]

_render_solid_line(start, end, width) ==
    LET direction_normalized == Normalized(VSub(end, start))
        offset == _calculate_perpendicular_offset(direction_normalized, width,
                                                  THICK_LINE_SCALE)
    IN  _create_quad_geometry(start, end, offset)

DashEndUnclipped(current_pos, dash_length, total_length) == current_pos + dash_length

\* dash_end = min(current_pos + dash_length, total_length)
DashEnd(current_pos, dash_length, total_length) ==
    Min(current_pos + dash_length, total_length)

\* the while loop of _render_dashed_line
RECURSIVE DashLoop(_, _, _, _, _, _, _, _, _)
DashLoop(start, dn, total_length, offset, dash_length, pattern_length, current_pos, coords, indices) ==
    IF ~(current_pos < total_length)
    THEN Geometry(coords, indices)
    ELSE LET dash_end == DashEnd(current_pos, dash_length, total_length)
             start_pos == VAdd(start, VScale(dn.v, current_pos, dn.den))
             end_pos == VAdd(start, VScale(dn.v, dash_end, dn.den))
             quad == _create_quad_geometry(start_pos, end_pos, offset)
         IN  IF dash_end > current_pos
             THEN DashLoop(start, dn, total_length, offset, dash_length,
                           pattern_length, current_pos + pattern_length,
                           coords \o quad.coords,
                           indices \o AdjustIndices(quad.indices, Len(coords)))
             ELSE DashLoop(start, dn, total_length, offset, dash_length,
                           pattern_length, current_pos + pattern_length,
                           coords, indices)

_render_dashed_line(start, end, width, dash_length, gap_length) ==
    LET direction == VSub(end, start)
        total_length == Length(direction)
        direction_normalized == Normalized(direction)
        offset == _calculate_perpendicular_offset(direction_normalized, width,
                                                  THICK_LINE_SCALE)
    IN  DashLoop(start, direction_normalized, total_length, offset, dash_length,
                 dash_length + gap_length, 0, <<>>, <<>>)

\* end - start of vectors of different sizes raises ValueError; direction.z
\* of a 2D vector raises AttributeError, which a degenerate segment returns
\* before reaching.
render_line(start, end, width, mode, dash_length, gap_length) ==
    IF Len(start) # Len(end)
    THEN Raised
    ELSE IF Length(VSub(end, start)) < MIN_SEGMENT_LENGTH
    THEN Geometry(<<>>, <<>>)
    ELSE IF Len(start) # 3
    THEN Raised
    ELSE IF mode = SOLID
    THEN _render_solid_line(start, end, width)
    ELSE _render_dashed_line(start, end, width, dash_length, gap_length)

\* the for loop of render_line_strip, from segment i on
RECURSIVE StripLoop(_, _, _, _, _, _, _, _)
StripLoop(points, i, width, mode, dash_length, gap_length, all_coords, all_indices) ==
    IF i > Len(points) - 1
    THEN Geometry(all_coords, all_indices)
    ELSE LET segment == render_line(points[i], points[i + 1], width, mode,
                                    dash_length, gap_length)
         IN  IF segment.exc
             THEN Raised
             ELSE IF segment.coords # <<>>
             THEN StripLoop(points, i + 1, width, mode, dash_length, gap_length,
                            all_coords \o segment.coords,
                            all_indices \o AdjustIndices(segment.indices, Len(all_coords)))
             ELSE StripLoop(points, i + 1, width, mode, dash_length, gap_length,
                            all_coords, all_indices)

\* "return coords if coords else [], []" is the pair (coords or [], [])
render_line_strip(coords, width, mode, dash_length, gap_length) ==
    IF Len(coords) < 2
    THEN Geometry(coords, <<>>)
    ELSE StripLoop(coords, 1, width, mode, dash_length, gap_length, <<>>, <<>>)

\* legacy wrappers
draw_thick_point_3d(center, size) == render_point(center, size)

draw_thick_line_3d(start, end, width) ==
    render_line(start, end, width, SOLID, DEFAULT_DASH_LENGTH, DEFAULT_GAP_LENGTH)

draw_thick_dashed_line_3d(start, end, width, dash_length, gap_length) ==
    render_line(start, end, width, DASHED, dash_length, gap_length)

draw_thick_line_strip_3d(coords, width) ==
    render_line_strip(coords, width, SOLID, DEFAULT_DASH_LENGTH, DEFAULT_GAP_LENGTH)

draw_thick_dashed_line_strip_3d(coords, width, dash_length, gap_length) ==
    render_line_strip(coords, width, DASHED, dash_length, gap_length)

---------------------------------------------------------------------------
\* Inputs of the tessellation calls

MaxScaleStep == 3
MaxStripLen == 3

Origin3D == <<0, 0, 0>>

\* directions whose length and whose perpendicular's length are whole
Directions ==
    { <<1, 0, 0>>, <<0, 0, 1>>, <<0, 0, -1>>, <<3, 4, 0>>,
      <<0, 3, 4>>, <<-4, 0, 3>>, <<0, 7, 24>> }

\* 0: the zero segment; 1, 2, 10: segments around MIN_SEGMENT_LENGTH
Scales == {0, 1, 2, 10} \cup {100000 * j : j \in 1..MaxScaleStep}

Starts == {Origin3D, <<1000000, -2000000, 500000>>}

Ends(start) == {VAdd(start, VScale(d, k, 1)) : d \in Directions, k \in Scales}

\* tenths: 0.2 (workplane edges), 1.5 (construction), 2.0
Widths == {0, 2, 15, 20}

DashLengths == {0, 400000, DEFAULT_DASH_LENGTH}

GapLengths == {100000, DEFAULT_GAP_LENGTH}

Modes == {SOLID, DASHED}

\* 2D points, as Entity2D coordinates are
Points2D == {<<0, 0>>, <<3, 4>>, <<300000, 400000>>}

Centers == Starts \cup {<<0, 0>>}

Sizes == {0, 5}

\* collinear points, two of them closer than MIN_SEGMENT_LENGTH, and a 2D one
StripPoints ==
    {Origin3D, <<3, 4, 0>>, <<300000, 400000, 0>>, <<600000, 800000, 0>>, <<0, 0>>}

SeqsUpTo(S, n) == UNION {[1..k -> S] : k \in 0..n}

NoCall ==
    [op |-> "none", center |-> <<>>, size |-> 0, start |-> <<>>, end |-> <<>>,
     coords |-> <<>>, width |-> 0, mode |-> SOLID, dash_length |-> 0, gap_length |-> 0]

LineCall(op, start, end, width, mode, dash_length, gap_length) ==
    [NoCall EXCEPT !.op = op, !.start = start, !.end = end, !.width = width,
                   !.mode = mode, !.dash_length = dash_length,
                   !.gap_length = gap_length]

PointCalls ==
    {[NoCall EXCEPT !.op = "render_point", !.center = center, !.size = size] :
        center \in Centers, size \in Sizes}

Segments == UNION {{<<start, end>> : end \in Ends(start)} : start \in Starts}

Segments2D == (Points2D \cup {Origin3D}) \X Points2D

LineCalls ==
    {LineCall("render_line", s[1], s[2], width, SOLID,
              DEFAULT_DASH_LENGTH, DEFAULT_GAP_LENGTH) :
        s \in Segments \cup Segments2D, width \in Widths}
    \cup
    {LineCall("render_line", s[1], s[2], width, DASHED, dash_length, gap_length) :
        s \in Segments \cup Segments2D, width \in Widths,
        dash_length \in DashLengths, gap_length \in GapLengths}

StripCalls ==
    {[NoCall EXCEPT !.op = "render_line_strip", !.coords = coords, !.width = 20,
                    !.mode = mode, !.dash_length = DEFAULT_DASH_LENGTH,
                    !.gap_length = DEFAULT_GAP_LENGTH] :
        coords \in SeqsUpTo(StripPoints, MaxStripLen), mode \in Modes}

LegacyLineCalls ==
    {LineCall("draw_thick_line_3d", s[1], s[2], width, SOLID,
              DEFAULT_DASH_LENGTH, DEFAULT_GAP_LENGTH) :
        s \in Segments, width \in Widths}

LegacyDashedLineCalls ==
    {LineCall("draw_thick_dashed_line_3d", s[1], s[2], width, DASHED,
              dash_length, gap_length) :
        s \in Segments, width \in Widths,
        dash_length \in DashLengths, gap_length \in GapLengths}

NotReturned == [exc |-> FALSE, coords |-> <<>>, indices |-> <<>>]

DrawCalls ==
    PointCalls \cup LineCalls \cup StripCalls \cup LegacyLineCalls
        \cup LegacyDashedLineCalls

Return(op, value) ==
    /\ draw_pc = "called"
    /\ call.op = op
    /\ result' = value
    /\ draw_pc' = "returned"
    /\ UNCHANGED call
    /\ UNCHANGED <<entity_vars, view_vars>>

RenderPoint == Return("render_point", render_point(call.center, call.size))

RenderLine ==
    Return("render_line",
           render_line(call.start, call.end, call.width, call.mode,
                       call.dash_length, call.gap_length))

RenderLineStrip ==
    Return("render_line_strip",
           render_line_strip(call.coords, call.width, call.mode,
                             call.dash_length, call.gap_length))

DrawThickLine3d ==
    Return("draw_thick_line_3d",
           draw_thick_line_3d(call.start, call.end, call.width))

DrawThickDashedLine3d ==
    Return("draw_thick_dashed_line_3d",
           draw_thick_dashed_line_3d(call.start, call.end, call.width,
                                     call.dash_length, call.gap_length))

NextDraw ==
    \/ RenderPoint
    \/ RenderLine
    \/ RenderLineStrip
    \/ DrawThickLine3d
    \/ DrawThickDashedLine3d

---------------------------------------------------------------------------
\* Entities (model/base_entity.py, model/workplane.py)

\* a workplane and the two entities it depends on, its origin point p1 and
\* its normal nm
Entities == {"wp", "p1", "nm"}

\* SlvsGenericEntity.dependencies returns [], SlvsWorkplane's [self.p1, self.nm]
dependencies(self) == IF self = "wp" THEN {"p1", "nm"} ELSE {}

\* the is_dirty getter
is_dirty(self) == dirty[self] \/ \E e \in dependencies(self) : dirty[e]

\* the _batch getter's None
NoBatch == [valid |-> FALSE, pos |-> <<>>, indices |-> <<>>]

\* a GPU batch, known by the geometry it was built from
Batch(coords, indices) == [valid |-> TRUE, pos |-> coords, indices |-> indices]

\* gpu_extras.batch.batch_for_shader either builds the batch or raises
batch_for_shader(coords, indices, gpu_ok) ==
    IF gpu_ok
    THEN [raised |-> FALSE, batch |-> Batch(coords, indices)]
    ELSE [raised |-> TRUE, batch |-> NoBatch]

create_thick_batch(coords, indices, gpu_ok) ==
    IF coords = <<>>
    THEN [raised |-> FALSE, batch |-> NoBatch]
    ELSE LET made == batch_for_shader(coords, indices, gpu_ok)
         IN  IF made.raised
             THEN [raised |-> FALSE, batch |-> NoBatch]
             ELSE made

_should_skip_update_never == FALSE

_should_skip_update == background

\* What a call leaves behind: the entity's stored batch, its dirty flag, and
\* how the call ended:
\*   "skipped"   it returned at once (background mode)
\*   "updated"   it stored a new batch
\*   "no_batch"  it returned without a new batch
\*   "caught"    it caught an exception and returned
\*   "raised"    it did not return: an exception left it
Outcome(batch, is_dirty_, status) ==
    [batch |-> batch, dirty |-> is_dirty_, status |-> status]

\* the try block shared, line for line, by the three update_thick_* methods
TryStoreBatchAlways(self, tess, gpu_ok) ==
    IF tess.exc
    THEN Outcome(batches[self], FALSE, "caught")
    ELSE LET made == create_thick_batch(tess.coords, tess.indices, gpu_ok)
         IN  IF made.raised
             THEN Outcome(batches[self], FALSE, "caught")
             ELSE Outcome(made.batch, FALSE,
                          IF made.batch.valid THEN "updated" ELSE "no_batch")

TryStoreBatch(self, tess, gpu_ok) ==
    IF tess.exc
    THEN Outcome(batches[self], FALSE, "caught")
    ELSE LET made == create_thick_batch(tess.coords, tess.indices, gpu_ok)
         IN  IF made.raised
             THEN Outcome(batches[self], FALSE, "caught")
             ELSE IF made.batch.valid
             THEN Outcome(made.batch, FALSE, "updated")
             ELSE Outcome(batches[self], dirty[self], "no_batch")

update_thick_point(self, center, size, gpu_ok) ==
    IF _should_skip_update
    THEN Outcome(batches[self], dirty[self], "skipped")
    ELSE TryStoreBatch(self, render_point(center, size), gpu_ok)

update_thick_line(self, start, end, width, is_dashed, gpu_ok) ==
    IF _should_skip_update
    THEN Outcome(batches[self], dirty[self], "skipped")
    ELSE TryStoreBatch(self,
                       render_line(start, end, width,
                                   IF is_dashed THEN DASHED ELSE SOLID,
                                   DEFAULT_DASH_LENGTH, DEFAULT_GAP_LENGTH),
                       gpu_ok)

update_thick_line_strip(self, coords, width, is_dashed, gpu_ok) ==
    IF _should_skip_update
    THEN Outcome(batches[self], dirty[self], "skipped")
    ELSE TryStoreBatch(self,
                       render_line_strip(coords, width,
                                         IF is_dashed THEN DASHED ELSE SOLID,
                                         DEFAULT_DASH_LENGTH, DEFAULT_GAP_LENGTH),
                       gpu_ok)

\* draw_rect_2d(0, 0, size, size) as Vectors
draw_rect_2d(cx, cy, width, height) ==
    LET ox == cx - (width \div 2)
        oy == cy - (height \div 2)
    IN  << <<ox, oy, 0>>, <<ox + width, oy, 0>>,
           <<ox + width, oy + height, 0>>, <<ox, oy + height, 0>> >>

\* line_width = 0.2, in tenths
WorkplaneLineWidth == 2

WorkplaneEdges == << <<0, 1>>, <<1, 2>>, <<2, 3>>, <<3, 0>> >>

\* the edge loop of SlvsWorkplane.update, from edge i on
RECURSIVE BorderLoop(_, _, _, _, _)
BorderLoop(rect_coords, i, border_coords, border_indices, vertex_offset) ==
    IF i > Len(WorkplaneEdges)
    THEN Geometry(border_coords, border_indices)
    ELSE LET start_point == rect_coords[WorkplaneEdges[i][1] + 1]
             end_point == rect_coords[WorkplaneEdges[i][2] + 1]
             line == draw_thick_line_3d(start_point, end_point, WorkplaneLineWidth)
         IN  BorderLoop(rect_coords, i + 1,
                        border_coords \o line.coords,
                        border_indices \o AdjustIndices(line.indices, vertex_offset),
                        vertex_offset + Len(line.coords))

Border(size) == BorderLoop(draw_rect_2d(0, 0, size, size), 1, <<>>, <<>>, 0)

workplane_update_keeps_dirty(self, gpu_ok) ==
    IF background
    THEN Outcome(batches[self], dirty[self], "skipped")
    ELSE LET border == Border(workplane_size)
         IN  IF border.coords # <<>> /\ border.indices # <<>>
             THEN LET made == batch_for_shader(border.coords, border.indices, gpu_ok)
                  IN  IF made.raised
                      THEN Outcome(batches[self], dirty[self], "raised")
                      ELSE Outcome(made.batch, dirty[self], "updated")
             ELSE Outcome(batches[self], dirty[self], "no_batch")

\* SlvsWorkplane.update: batch_for_shader is called outside any try
workplane_update(self, gpu_ok) ==
    IF background
    THEN Outcome(batches[self], dirty[self], "skipped")
    ELSE LET border == Border(workplane_size)
         IN  IF border.coords # <<>> /\ border.indices # <<>>
             THEN LET made == batch_for_shader(border.coords, border.indices, gpu_ok)
                  IN  IF made.raised
                      THEN Outcome(batches[self], dirty[self], "raised")
                      ELSE Outcome(made.batch, FALSE, "updated")
             ELSE Outcome(batches[self], FALSE, "no_batch")

---------------------------------------------------------------------------
\* Inputs of the entity calls

FarPoint == <<900000, 1200000, 0>>

EntityCenters == {Origin3D, <<0, 0>>}

\* a zero-length line, a line, and a line between 2D points
EntityLines == {<<Origin3D, Origin3D>>, <<Origin3D, FarPoint>>,
                <<<<0, 0>>, <<300000, 400000>>>>}

EntityStrips == {<<>>, <<Origin3D>>, <<Origin3D, Origin3D>>, <<Origin3D, FarPoint>>,
                 <<<<0, 0>>, <<300000, 400000>>>>}

\* size = 0.4
DefaultWorkplaneSize == 4000000

\* that size, half of it, and one below MIN_SEGMENT_LENGTH
WorkplaneSizes == {8, 2000000, DefaultWorkplaneSize}

ThickEntities == {"p1", "nm"}

ThickOps == {"update_thick_point", "update_thick_line", "update_thick_line_strip"}

NoLast == [op |-> "none", entity |-> "wp", status |-> "none"]

\* the call op on entity self ends with outcome out
Apply(op, self, out) ==
    /\ out.status # "raised" =>
        /\ batches' = [batches EXCEPT ![self] = out.batch]
        /\ dirty' = [dirty EXCEPT ![self] = out.dirty]
    /\ out.status = "raised" => UNCHANGED <<batches, dirty>>
    /\ last' = [op |-> op, entity |-> self, status |-> out.status]
    /\ UNCHANGED <<background, workplane_size>>
    /\ UNCHANGED <<draw_vars, view_vars>>

UpdateThickPoint ==
    \E self \in ThickEntities, center \in EntityCenters, gpu_ok \in BOOLEAN :
        Apply("update_thick_point", self, update_thick_point(self, center, 5, gpu_ok))

UpdateThickLine ==
    \E self \in ThickEntities, line \in EntityLines, is_dashed \in BOOLEAN,
       gpu_ok \in BOOLEAN :
        Apply("update_thick_line", self,
              update_thick_line(self, line[1], line[2], 20, is_dashed, gpu_ok))

UpdateThickLineStrip ==
    \E self \in ThickEntities, coords \in EntityStrips, is_dashed \in BOOLEAN,
       gpu_ok \in BOOLEAN :
        Apply("update_thick_line_strip", self,
              update_thick_line_strip(self, coords, 20, is_dashed, gpu_ok))

WorkplaneUpdate ==
    \E gpu_ok \in BOOLEAN :
        Apply("workplane_update", "wp", workplane_update("wp", gpu_ok))

\* tag_update: if not self.is_dirty: self.is_dirty = True
TagUpdate ==
    \E self \in Entities :
        /\ dirty' = IF ~is_dirty(self) THEN [dirty EXCEPT ![self] = TRUE] ELSE dirty
        /\ last' = [op |-> "tag_update", entity |-> self, status |-> "returned"]
        /\ UNCHANGED <<background, batches, workplane_size>>
        /\ UNCHANGED <<draw_vars, view_vars>>

\* the user changes the workplane_size preference
SetWorkplaneSize ==
    \E size \in WorkplaneSizes :
        /\ size # workplane_size
        /\ workplane_size' = size
        /\ last' = [op |-> "set_workplane_size", entity |-> "wp", status |-> "returned"]
        /\ UNCHANGED <<background, dirty, batches>>
        /\ UNCHANGED <<draw_vars, view_vars>>

NextEntity ==
    \/ UpdateThickPoint
    \/ UpdateThickLine
    \/ UpdateThickLineStrip
    \/ WorkplaneUpdate
    \/ TagUpdate
    \/ SetWorkplaneSize

---------------------------------------------------------------------------
\* Colour, visibility and selectability (model/base_entity.py)

\* The scene: sketches s1 and s2 lie on workplane w1, sketch s3 on w2.
Sketches == {"s1", "s2", "s3"}

wp(sketch_) == IF sketch_ = "s3" THEN "w2" ELSE "w1"

\* active_sketch when no sketch is active
None == "None"

\* the slvs_index of two entities: 1 is a 2D entity of sketch s1, 2 is a 3D
\* entity, which has no sketch attribute
Indices == {1, 2}

HasSketch(self) == self = 1

sketch(self) == "s1"

\* the hover getter
hover_get(self) == hover = self

\* the selected getter
selected_get(self) == \E i \in 1..Len(selected) : selected[i] = self

\* list.index(slvs_index)
RECURSIVE IndexFrom(_, _, _)
IndexFrom(list, x, i) == IF list[i] = x THEN i ELSE IndexFrom(list, x, i + 1)

\* list.pop(i)
Pop(list, i) == [k \in 1..(Len(list) - 1) |-> IF k < i THEN list[k] ELSE list[k + 1]]

\* slvs_index in list
Contains(list, slvs_index) == \E i \in 1..Len(list) : list[i] = slvs_index

\* a setter that appends on every true assignment, without the membership test
selected_setter_append_always(list, slvs_index, value) ==
    IF value
    THEN Append(list, slvs_index)
    ELSE IF Contains(list, slvs_index)
         THEN Pop(list, IndexFrom(list, slvs_index, 1))
         ELSE list

\* the body of the selected setter, on the list global_data.selected
selected_setter(list, slvs_index, value) ==
    IF Contains(list, slvs_index)
    THEN IF ~value THEN Pop(list, IndexFrom(list, slvs_index, 1)) ELSE list
    ELSE IF value THEN Append(list, slvs_index) ELSE list

\* the selected setter
selected_set(self, value) == selected_setter(selected, self, value)

is_active(self, active_sketch_) ==
    IF HasSketch(self)
    THEN sketch(self) = active_sketch_
    ELSE active_sketch_ = None

is_visible_sketch_first(self) ==
    IF HasSketch(self)
    THEN sketch_visible[sketch(self)] /\ visible[self]
    ELSE IF origin[self]
    THEN show_origin
    ELSE visible[self]

is_visible(self) ==
    IF origin[self]
    THEN show_origin
    ELSE IF HasSketch(self)
    THEN sketch_visible[sketch(self)] /\ visible[self]
    ELSE visible[self]

is_selectable_option_first(self) ==
    IF all_entities_selectable
    THEN TRUE
    ELSE IF ~is_visible(self)
    THEN FALSE
    ELSE IF active_sketch # None /\ HasSketch(self)
    THEN wp(active_sketch) = wp(sketch(self))
    ELSE is_active(self, active_sketch)

is_selectable(self) ==
    IF ~is_visible(self)
    THEN FALSE
    ELSE IF all_entities_selectable
    THEN TRUE
    ELSE IF active_sketch # None /\ HasSketch(self)
    THEN wp(active_sketch) = wp(sketch(self))
    ELSE is_active(self, active_sketch)

is_highlight(self) == hover_get(self) \/ self \in highlight_entities

color_fixed_origin(self) ==
    LET active == is_active(self, active_sketch)
        highlight == is_highlight(self)
    IN  IF ~active
        THEN IF highlight THEN "highlight"
             ELSE IF selected_get(self) THEN "inactive_selected"
             ELSE "inactive"
        ELSE IF selected_get(self)
        THEN IF highlight THEN "selected_highlight" ELSE "selected"
        ELSE IF highlight
        THEN "highlight"
        ELSE IF fixed[self]
        THEN "fixed"
        ELSE "default"

\* the attribute of prefs.theme_settings.entity that color returns
color(self) ==
    LET active == is_active(self, active_sketch)
        highlight == is_highlight(self)
    IN  IF ~active
        THEN IF highlight THEN "highlight"
             ELSE IF selected_get(self) THEN "inactive_selected"
             ELSE "inactive"
        ELSE IF selected_get(self)
        THEN IF highlight THEN "selected_highlight" ELSE "selected"
        ELSE IF highlight
        THEN "highlight"
        ELSE IF fixed[self] /\ ~origin[self]
        THEN "fixed"
        ELSE "default"

\* the sketches that own an entity
OwnerSketches == {sketch(e) : e \in {i \in Indices : HasSketch(i)}}

SetFixed ==
    \E self \in Indices :
        /\ fixed' = [fixed EXCEPT ![self] = ~fixed[self]]
        /\ UNCHANGED <<visible, origin, sketch_visible, active_sketch, show_origin,
                       all_entities_selectable, hover, selected, highlight_entities>>
        /\ UNCHANGED <<entity_vars, draw_vars>>

SetVisible ==
    \E self \in Indices :
        /\ visible' = [visible EXCEPT ![self] = ~visible[self]]
        /\ UNCHANGED <<fixed, origin, sketch_visible, active_sketch, show_origin,
                       all_entities_selectable, hover, selected, highlight_entities>>
        /\ UNCHANGED <<entity_vars, draw_vars>>

SetOrigin ==
    \E self \in Indices :
        /\ origin' = [origin EXCEPT ![self] = ~origin[self]]
        /\ UNCHANGED <<fixed, visible, sketch_visible, active_sketch, show_origin,
                       all_entities_selectable, hover, selected, highlight_entities>>
        /\ UNCHANGED <<entity_vars, draw_vars>>

SetSketchVisible ==
    \E s \in DOMAIN sketch_visible :
        /\ sketch_visible' = [sketch_visible EXCEPT ![s] = ~sketch_visible[s]]
        /\ UNCHANGED <<fixed, visible, origin, active_sketch, show_origin,
                       all_entities_selectable, hover, selected, highlight_entities>>
        /\ UNCHANGED <<entity_vars, draw_vars>>

SetActiveSketch ==
    \E s \in Sketches \cup {None} :
        /\ s # active_sketch
        /\ active_sketch' = s
        /\ UNCHANGED <<fixed, visible, origin, sketch_visible, show_origin,
                       all_entities_selectable, hover, selected, highlight_entities>>
        /\ UNCHANGED <<entity_vars, draw_vars>>

SetShowOrigin ==
    /\ show_origin' = ~show_origin
    /\ UNCHANGED <<fixed, visible, origin, sketch_visible, active_sketch,
                   all_entities_selectable, hover, selected, highlight_entities>>
    /\ UNCHANGED <<entity_vars, draw_vars>>

SetAllEntitiesSelectable ==
    /\ all_entities_selectable' = ~all_entities_selectable
    /\ UNCHANGED <<fixed, visible, origin, sketch_visible, active_sketch,
                   show_origin, hover, selected, highlight_entities>>
    /\ UNCHANGED <<entity_vars, draw_vars>>

\* the hover setter
SetHover ==
    \E self \in Indices, value \in BOOLEAN :
        /\ hover' = IF value THEN self ELSE -1
        /\ UNCHANGED <<fixed, visible, origin, sketch_visible, active_sketch,
                       show_origin, all_entities_selectable, selected,
                       highlight_entities>>
        /\ UNCHANGED <<entity_vars, draw_vars>>

SetSelected ==
    \E self \in Indices, value \in BOOLEAN :
        /\ selected' = selected_set(self, value)
        /\ UNCHANGED <<fixed, visible, origin, sketch_visible, active_sketch,
                       show_origin, all_entities_selectable, hover,
                       highlight_entities>>
        /\ UNCHANGED <<entity_vars, draw_vars>>

\* an operator replaces global_data.highlight_entities
SetHighlightEntities ==
    \E entities \in SUBSET Indices :
        /\ entities # highlight_entities
        /\ highlight_entities' = entities
        /\ UNCHANGED <<fixed, visible, origin, sketch_visible, active_sketch,
                       show_origin, all_entities_selectable, hover, selected>>
        /\ UNCHANGED <<entity_vars, draw_vars>>

NextView ==
    \/ SetFixed
    \/ SetVisible
    \/ SetOrigin
    \/ SetSketchVisible
    \/ SetActiveSketch
    \/ SetShowOrigin
    \/ SetAllEntitiesSelectable
    \/ SetHover
    \/ SetSelected
    \/ SetHighlightEntities

---------------------------------------------------------------------------
\* Specifications

\* The entity updates: entities start dirty and without a batch; no
\* tessellation call is under way; the properties have their defaults.
Init ==
    /\ background \in BOOLEAN
    /\ dirty = [e \in Entities |-> TRUE]
    /\ batches = [e \in Entities |-> NoBatch]
    /\ workplane_size = DefaultWorkplaneSize
    /\ last = NoLast
    /\ call = NoCall
    /\ draw_pc = "idle"
    /\ result = NotReturned
    /\ fixed = [e \in Indices |-> FALSE]
    /\ visible = [e \in Indices |-> TRUE]
    /\ origin = [e \in Indices |-> FALSE]
    /\ sketch_visible = [s \in OwnerSketches |-> TRUE]
    /\ active_sketch = None
    /\ show_origin = TRUE
    /\ all_entities_selectable = FALSE
    /\ hover = -1
    /\ selected = <<>>
    /\ highlight_entities = {}

Spec == Init /\ [][NextEntity]_vars

\* The tessellation calls: a call with its arguments, about to run.
InitDraw ==
    /\ background = FALSE
    /\ dirty = [e \in Entities |-> TRUE]
    /\ batches = [e \in Entities |-> NoBatch]
    /\ workplane_size = DefaultWorkplaneSize
    /\ last = NoLast
    /\ call \in DrawCalls
    /\ draw_pc = "called"
    /\ result = NotReturned
    /\ fixed = [e \in Indices |-> FALSE]
    /\ visible = [e \in Indices |-> TRUE]
    /\ origin = [e \in Indices |-> FALSE]
    /\ sketch_visible = [s \in OwnerSketches |-> TRUE]
    /\ active_sketch = None
    /\ show_origin = TRUE
    /\ all_entities_selectable = FALSE
    /\ hover = -1
    /\ selected = <<>>
    /\ highlight_entities = {}

SpecDraw == InitDraw /\ [][NextDraw]_vars

\* Colour, visibility and selectability: the properties start with their
\* defaults, nothing hovered, selected or highlighted, no sketch active.
InitView ==
    /\ background = FALSE
    /\ dirty = [e \in Entities |-> TRUE]
    /\ batches = [e \in Entities |-> NoBatch]
    /\ workplane_size = DefaultWorkplaneSize
    /\ last = NoLast
    /\ call = NoCall
    /\ draw_pc = "idle"
    /\ result = NotReturned
    /\ fixed = [e \in Indices |-> FALSE]
    /\ visible = [e \in Indices |-> TRUE]
    /\ origin = [e \in Indices |-> FALSE]
    /\ sketch_visible = [s \in OwnerSketches |-> TRUE]
    /\ active_sketch = None
    /\ show_origin = TRUE
    /\ all_entities_selectable = FALSE
    /\ hover = -1
    /\ selected = <<>>
    /\ highlight_entities = {}

SpecView == InitView /\ [][NextView]_vars

\* Selection list: entities of any slvs_index assign their selected property;
\* the list global_data.selected starts empty and nothing else changes
MaxSlvsIndex == 5
SlvsIndices == 1..MaxSlvsIndex

AssignSelected ==
    \E self \in SlvsIndices, value \in BOOLEAN :
        /\ selected' = selected_set(self, value)
        /\ UNCHANGED <<fixed, visible, origin, sketch_visible, active_sketch,
                       show_origin, all_entities_selectable, hover,
                       highlight_entities>>
        /\ UNCHANGED <<entity_vars, draw_vars>>

NextSelect == AssignSelected

SpecSelect == InitView /\ [][NextSelect]_vars

---------------------------------------------------------------------------
\* Claims about the entity updates (Spec)

\* C1: outside background mode, every update_thick_point, update_thick_line
\* and update_thick_line_strip call returns with the entity's own dirty flag
\* cleared, whatever the outcome of tessellation and batch creation.
C1_DirtyClearedByThickUpdate ==
    (~background /\ last.op \in ThickOps) => ~dirty[last.entity]

SampleGeometries ==
    {Geometry(<<>>, <<>>), render_point(Origin3D, 5),
     render_line_strip(<<Origin3D>>, 20, SOLID, DEFAULT_DASH_LENGTH, DEFAULT_GAP_LENGTH)}

\* C2: create_thick_batch never raises and returns None for empty coords and
\* for a batch construction that raises; an update_thick_* call always
\* returns; the stored batch of an entity changes only in the call that
\* created a new batch for it, and then it is that batch.
C2_ThickUpdateHandlesErrors ==
    [][ /\ \A g \in SampleGeometries, gpu_ok \in BOOLEAN :
            LET made == create_thick_batch(g.coords, g.indices, gpu_ok)
            IN  /\ ~made.raised
                /\ (g.coords = <<>> \/ ~gpu_ok) => made.batch = NoBatch
        /\ last'.op \in ThickOps =>
            /\ last'.status \in {"skipped", "updated", "no_batch", "caught"}
            /\ last'.status = "updated" => batches'[last'.entity].valid
            /\ \A e \in Entities :
                batches'[e] # batches[e] =>
                    /\ e = last'.entity
                    /\ last'.status = "updated"
                    /\ batches'[e].valid
      ]_vars

\* a failed update has left an earlier batch in place
C2_Witness ==
    /\ last.op \in ThickOps
    /\ last.status \in {"no_batch", "caught"}
    /\ batches[last.entity].valid

\* C3: in background mode update_thick_point, update_thick_line,
\* update_thick_line_strip and SlvsWorkplane.update change neither a stored
\* batch nor a dirty flag, and build nothing.
C3_BackgroundSkipsUpdates ==
    [][ (background /\ last'.op \in ThickOps \cup {"workplane_update"}) =>
            /\ last'.status = "skipped"
            /\ batches' = batches
            /\ dirty' = dirty
      ]_vars

C3_Witness ==
    /\ background
    /\ last.op \in ThickOps
    /\ last.status = "skipped"
    /\ dirty[last.entity]

BorderBatch(size) == Batch(Border(size).coords, Border(size).indices)

WorkplaneUpdateReturned ==
    /\ ~background
    /\ last.op = "workplane_update"
    /\ last.status # "raised"

\* C4 as stated: after SlvsWorkplane.update() returns outside background
\* mode, is_dirty reads False whatever the dirty state of p1 and nm, and the
\* stored batch is the border built from the current workplane size.
C4_WorkplaneUpToDate ==
    WorkplaneUpdateReturned =>
        /\ ~is_dirty("wp")
        /\ batches["wp"] = BorderBatch(workplane_size)

\* C4 amended: after SlvsWorkplane.update() returns outside background mode,
\* the workplane's own dirty flag is False, so that is_dirty reads False
\* exactly when neither p1 nor nm is dirty; the stored batch is the border
\* built from the current workplane size when that border is not empty, and
\* is the batch stored before the call when it is.
C4_WorkplaneOwnFlagCleared ==
    [][ WorkplaneUpdateReturned' =>
            /\ ~dirty'["wp"]
            /\ is_dirty("wp")' <=> (dirty'["p1"] \/ dirty'["nm"])
            /\ IF Border(workplane_size').coords # <<>>
               THEN batches'["wp"] = BorderBatch(workplane_size')
               ELSE batches'["wp"] = batches["wp"]
      ]_vars

\* the update has returned and stored the border, with p1 still dirty
C4_Witness ==
    /\ WorkplaneUpdateReturned
    /\ last.status = "updated"
    /\ batches["wp"] = BorderBatch(workplane_size)
    /\ dirty["p1"]
    /\ is_dirty("wp")

---------------------------------------------------------------------------
\* Claims about the tessellation (SpecDraw)

Dot(a, b) == a[1] * b[1] + a[2] * b[2] + a[3] * b[3]

\* v divided by the gcd of its components
Reduced(v) ==
    LET g == GcdOf(v, Len(v))
    IN  IF g = 0 THEN v ELSE [i \in 1..Len(v) |-> v[i] \div g]

QuadIndices(k) == << <<4 * k, 4 * k + 1, 4 * k + 2>>, <<4 * k, 4 * k + 2, 4 * k + 3>> >>

IsSegment3D == Len(call.start) = 3 /\ Len(call.end) = 3

LineOps == {"render_line", "draw_thick_line_3d", "draw_thick_dashed_line_3d"}

\* C8: a 3D segment shorter than MIN_SEGMENT_LENGTH gives ([], []) in both
\* modes; a 3D segment at least that long with width > 0 gives, in SOLID mode
\* and through draw_thick_line_3d, the vertices start-o, start+o, end+o,
\* end-o and the triangles (0,1,2), (0,2,3), with o non-zero and
\* perpendicular to end - start.
C8_SolidLineQuad ==
    (draw_pc = "returned" /\ call.op \in LineOps /\ IsSegment3D) =>
        LET direction == VSub(call.end, call.start)
            o == VSub(result.coords[2], call.start)
        IN  /\ Length(direction) < MIN_SEGMENT_LENGTH =>
                result = Geometry(<<>>, <<>>)
            /\ (/\ Length(direction) >= MIN_SEGMENT_LENGTH
                /\ call.width > 0
                /\ call.mode = SOLID) =>
                /\ ~result.exc
                /\ Len(result.coords) = 4
                /\ result.coords = << VSub(call.start, o), VAdd(call.start, o),
                                      VAdd(call.end, o), VSub(call.end, o) >>
                /\ result.indices = QuadIndices(0)
                /\ o # <<0, 0, 0>>
                /\ Dot(Reduced(o), Reduced(direction)) = 0

\* a solid quad along the z axis, through the legacy wrapper
C8_Witness ==
    /\ draw_pc = "returned"
    /\ call.op = "draw_thick_line_3d"
    /\ call.width > 0
    /\ VSub(call.end, call.start) = <<0, 0, 100000>>
    /\ Len(result.coords) = 4

\* the number of k >= 0 with k * pattern < total
DashCount(total, pattern) == (total + pattern - 1) \div pattern

\* C9: for a 3D segment of length L >= MIN_SEGMENT_LENGTH, dash_length d > 0
\* and gap_length g > 0, DASHED mode gives one quad per k >= 0 with
\* k*(d+g) < L, in order, quad k running from k*(d+g) to min(k*(d+g)+d, L)
\* along the segment; so the dashes lie within [0, L], none is longer than d,
\* consecutive ones are g apart, and the first starts at the start point.
C9_DashedLineQuads ==
    (/\ draw_pc = "returned"
     /\ call.op \in LineOps
     /\ call.mode = DASHED
     /\ IsSegment3D
     /\ Length(VSub(call.end, call.start)) >= MIN_SEGMENT_LENGTH
     /\ call.dash_length > 0
     /\ call.gap_length > 0) =>
        LET direction == VSub(call.end, call.start)
            L == Length(direction)
            d == call.dash_length
            g == call.gap_length
            n == DashCount(L, d + g)
            dn == Normalized(direction)
            o == VSub(result.coords[2], call.start)
            from(k) == k * (d + g)
            to(k) == Min(k * (d + g) + d, L)
            at(t) == VAdd(call.start, VScale(dn.v, t, dn.den))
        IN  /\ ~result.exc
            /\ n >= 1
            /\ Len(result.coords) = 4 * n
            /\ Len(result.indices) = 2 * n
            /\ \A k \in 0..(n - 1) :
                /\ result.coords[4 * k + 1] = VSub(at(from(k)), o)
                /\ result.coords[4 * k + 2] = VAdd(at(from(k)), o)
                /\ result.coords[4 * k + 3] = VAdd(at(to(k)), o)
                /\ result.coords[4 * k + 4] = VSub(at(to(k)), o)
                /\ result.indices[2 * k + 1] = QuadIndices(k)[1]
                /\ result.indices[2 * k + 2] = QuadIndices(k)[2]
                /\ 0 <= from(k) /\ from(k) < to(k) /\ to(k) <= L
                /\ to(k) - from(k) <= d
                /\ k < n - 1 => from(k + 1) - to(k) = g
            /\ at(from(0)) = call.start
            /\ call.width > 0 => Dot(Reduced(o), Reduced(direction)) = 0

\* four dashes, the last one cut short by the end of the segment
C9_Witness ==
    /\ draw_pc = "returned"
    /\ call.op = "draw_thick_dashed_line_3d"
    /\ call.width > 0
    /\ call.dash_length = DEFAULT_DASH_LENGTH
    /\ call.gap_length = DEFAULT_GAP_LENGTH
    /\ Length(VSub(call.end, call.start)) = 5 * DEFAULT_DASH_LENGTH
    /\ Len(result.coords) = 16

\* len(coords) = 4q, len(indices) = 2q, and the two triangles of quad k use
\* only the vertices 4k..4k+3
WholeQuads(geometry) ==
    /\ Len(geometry.coords) % 4 = 0
    /\ 2 * Len(geometry.coords) = 4 * Len(geometry.indices)
    /\ \A j \in 1..Len(geometry.indices) : \A c \in 1..3 :
        /\ geometry.indices[j][c] >= 4 * ((j - 1) \div 2)
        /\ geometry.indices[j][c] <= 4 * ((j - 1) \div 2) + 3
        /\ geometry.indices[j][c] < Len(geometry.coords)

\* C10: whatever render_point, render_line and render_line_strip return, and
\* the border SlvsWorkplane.update accumulates, consists of whole quads.
C10_WholeQuads ==
    /\ (draw_pc = "returned" /\ ~result.exc) => WholeQuads(result)
    /\ \A size \in WorkplaneSizes : WholeQuads(Border(size))

---------------------------------------------------------------------------
\* Claims about colour, visibility and selectability (SpecView)

ThemeColors ==
    {"default", "fixed", "highlight", "inactive", "inactive_selected",
     "selected", "selected_highlight"}

\* C5: color returns exactly one theme colour for every combination of
\* active, selected, highlight, fixed and origin.  Inactive: highlight if
\* highlighted, else inactive_selected if selected, else inactive.  Active:
\* selected_highlight if selected and highlighted, selected if only selected,
\* highlight if only highlighted, fixed if neither and fixed and not origin,
\* default otherwise.  fixed is never the colour of an origin, inactive,
\* selected or highlighted entity.
C5_ColorPriority ==
    \A self \in Indices :
        LET a == is_active(self, active_sketch)
            s == selected_get(self)
            h == is_highlight(self)
            f == fixed[self]
            o == origin[self]
            c == color(self)
        IN  /\ c \in ThemeColors
            /\ c = "highlight" <=> (h /\ (~a \/ ~s))
            /\ c = "inactive_selected" <=> (~a /\ ~h /\ s)
            /\ c = "inactive" <=> (~a /\ ~h /\ ~s)
            /\ c = "selected_highlight" <=> (a /\ s /\ h)
            /\ c = "selected" <=> (a /\ s /\ ~h)
            /\ c = "fixed" <=> (a /\ ~s /\ ~h /\ f /\ ~o)
            /\ c = "default" <=> (a /\ ~s /\ ~h /\ ~(f /\ ~o))
            /\ c = "fixed" => (~o /\ a /\ ~s /\ ~h)

\* an active, fixed origin entity has the default colour
C5_Witness ==
    \E self \in Indices :
        /\ is_active(self, active_sketch)
        /\ fixed[self] /\ origin[self]
        /\ ~selected_get(self) /\ ~is_highlight(self)
        /\ color(self) = "default"

\* C6: an origin entity is visible exactly when show_origin is true; another
\* entity that belongs to a sketch, exactly when the sketch is visible and
\* its own visible flag is set; another entity without a sketch, exactly
\* when its visible flag is set.
C6_VisibleRule ==
    \A self \in Indices :
        /\ origin[self] => (is_visible(self) <=> show_origin)
        /\ (~origin[self] /\ HasSketch(self)) =>
            (is_visible(self) <=> (sketch_visible[sketch(self)] /\ visible[self]))
        /\ (~origin[self] /\ ~HasSketch(self)) => (is_visible(self) <=> visible[self])

\* an origin entity of a hidden sketch, itself hidden, is visible
C6_Witness ==
    \E self \in Indices :
        /\ origin[self] /\ HasSketch(self)
        /\ ~visible[self] /\ ~sketch_visible[sketch(self)]
        /\ show_origin
        /\ is_visible(self)

\* C7: an entity that is not visible is not selectable, whatever the
\* all_entities_selectable option; a visible one is selectable if the option
\* is on; otherwise, with a sketch active and the entity in a sketch, exactly
\* when the two sketches have the same workplane; otherwise exactly when the
\* entity's sketch is the active sketch, or it has no sketch and none is
\* active.
C7_SelectableRule ==
    \A self \in Indices :
        /\ ~is_visible(self) => ~is_selectable(self)
        /\ (is_visible(self) /\ all_entities_selectable) => is_selectable(self)
        /\ (is_visible(self) /\ ~all_entities_selectable) =>
            IF active_sketch # None /\ HasSketch(self)
            THEN is_selectable(self) <=> wp(active_sketch) = wp(sketch(self))
            ELSE is_selectable(self) <=>
                    \/ HasSketch(self) /\ sketch(self) = active_sketch
                    \/ ~HasSketch(self) /\ active_sketch = None

\* with the option off, an entity is selectable through an active sketch
\* that is not its own but lies on the same workplane, while the entity
\* without a sketch is visible and not selectable
C7_Witness ==
    /\ ~all_entities_selectable
    /\ active_sketch = "s2"
    /\ is_selectable(1) /\ ~is_active(1, active_sketch)
    /\ is_visible(2) /\ ~is_selectable(2)


\* ---------------------------------------------------------------------------
\* Claims checked under SpecSelect
\* ---------------------------------------------------------------------------

\* no value occurs twice in the list
NoDuplicates(list) == \A i, j \in 1..Len(list) : list[i] = list[j] => i = j

\* the list without every occurrence of x, order kept
RECURSIVE Without(_, _)
Without(list, x) ==
    IF list = <<>> THEN <<>>
    ELSE IF Head(list) = x THEN Without(Tail(list), x)
         ELSE <<Head(list)>> \o Without(Tail(list), x)

\* C11: global_data.selected, which starts without duplicates, holds each
\* slvs_index at most once after any sequence of assignments to selected; from
\* any such list, after e.selected = v the getter e.selected returns v, the
\* list is still free of duplicates, assigning v again changes nothing, and the
\* other indices keep their membership and their relative order.
C11_SelectedList ==
    /\ NoDuplicates(selected)
    /\ \A self \in SlvsIndices, value \in BOOLEAN :
           LET after == selected_setter(selected, self, value) IN
               /\ NoDuplicates(after)
               /\ Contains(after, self) = value
               /\ selected_setter(after, self, value) = after
               /\ Without(after, self) = Without(selected, self)
               /\ \A other \in SlvsIndices \ {self} :
                      Contains(after, other) = Contains(selected, other)

\* three entities were selected out of index order and the one selected
\* second was deselected again, leaving the other two in their order
C11_Witness ==
    /\ selected = <<3, 1>>
    /\ selected_setter(<<3, 2, 1>>, 2, FALSE) = selected
    /\ selected_setter(selected, 2, TRUE) = <<3, 1, 2>>

=============================================================================
